---- MODULE Spec2Model ----
(***************************************************************************)
(* A model of serpico's protocol engine (src/src/serial.rs): read_until    *)
(* and execute, driven against a serial port whose device side is the      *)
(* environment.  Bytes are integers 0..255.  The port is a FIFO `rx` of    *)
(* bytes the device has sent and the host has not yet read; a read on an   *)
(* empty FIFO times out after the port's 10 ms read timeout.  Writes to    *)
(* the port are assumed to succeed and are logged, one entry per           *)
(* write_all call.                                                         *)
(***************************************************************************)
EXTENDS Integers, Sequences, FiniteSets, TLC

\* ------------------------------------------------------------- bounds
MaxLen == 2        \* longest script of the small scripts
MaxGrants == 2     \* credit-grant bytes the device sends in one session
MaxJunk == 1       \* non-protocol bytes the device sends in one session
MaxRx == 2         \* bytes in flight in the port's receive FIFO
MaxBudget == 1     \* largest idle-timeout of a stand-alone read_until
MaxTermLen == 2    \* longest terminator of a stand-alone read_until
MaxStream == 3     \* bytes the device sends to a stand-alone read_until

\* ------------------------------------------------- program constants
BUFFER_SIZE == 16
TicksPerUnit == 100

RawBanner == <<114, 97, 119, 32, 82, 69, 80, 76, 59, 32, 67, 84, 82, 76, 45,
               66, 32, 116, 111, 32, 101, 120, 105, 116, 13, 10>>
RebootBanner == <<115, 111, 102, 116, 32, 114, 101, 98, 111, 111, 116, 13, 10>>
Prompt == <<62>>
EndMarker == <<4>>
InterruptBytes == <<13, 3, 3>>
EnterRawBytes == <<13, 1>>
PasteRequest == <<5, 65, 1>>

\* Option<usize>: <<>> is None, <<t>> is Some(t).
None == <<>>
Some(t) == <<t>>

VARIABLES
  script,         \* the payload, script.as_bytes()
  timeout,        \* execute's / read_until's Option<usize> idle budget
  pc,             \* position of the host in execute
  result,         \* "none" while running, then "Ok" or the error
  writes,         \* log of write_all calls: [site, data]
  rx,             \* receive FIFO of the port
  byte_buf,       \* execute's 1-byte control buffer (its single element)
  window_size,    \* negotiated unit size
  window_remain,  \* remaining credit
  i,              \* offset into the script
  wait,           \* call site of the running read_until
  bytes,          \* read_until's terminator
  echo,           \* read_until's echo flag
  deque,          \* read_until's sliding window
  timeout_count,  \* read_until's idle counter
  echoed,         \* bytes written to stdout by read_until's print!
  stream,         \* history: bytes the running read_until has received
  grants_read,    \* history: credit-grant bytes read from the port
  waits_done,     \* history: the read_until calls that returned Ok(())
  flush_read,     \* history: outcome of the latest read of the flush loop
  echo_input,     \* history: bytes received by the stdout and stderr waits
  ports,          \* discovery: what available_ports() returned
  p_idx,          \* discovery: ports visited by the for loop
  micropython_ports, \* discovery: the result vector
  printed,        \* discovery: lines written by println!
  grants_sent,    \* device: credit-grant bytes sent
  junk_sent,      \* device: non-protocol bytes sent
  silent          \* device: has stopped sending for good

vars == <<script, timeout, pc, result, writes, rx, byte_buf, window_size,
          window_remain, i, wait, bytes, echo, deque, timeout_count, echoed,
          stream, grants_read, waits_done, flush_read, echo_input,
          ports, p_idx, micropython_ports, printed, grants_sent, junk_sent,
          silent>>

hostLocals == <<byte_buf, window_size, window_remain, i>>
ruLocals == <<wait, bytes, echo, deque, timeout_count, stream>>
devVars == <<grants_sent, junk_sent, silent>>
discVars == <<ports, p_idx, micropython_ports, printed>>

\* ------------------------------------------------------------ helpers
Min(a, b) == IF a < b THEN a ELSE b

Zeros(n) == [k \in 1..n |-> 0]

Payload(L) == [k \in 1..L |-> 97 + ((k - 1) % 26)]

Last(s, n) == SubSeq(s, Len(s) - n + 1, Len(s))

\* The terminator and echo flag of each read_until call of execute.
Terminator(site) ==
  CASE site = "raw1" -> RawBanner
    [] site = "reboot" -> RebootBanner
    [] site = "raw2" -> RawBanner
    [] site = "prompt" -> Prompt
    [] site = "eot" -> EndMarker
    [] site = "stdout" -> EndMarker
    [] site = "stderr" -> EndMarker

Echo(site) == site \in {"stdout", "stderr"}

Write(site, data) == writes' = Append(writes, [site |-> site, data |-> data])

\* ---------------------------------------------------------- read_until
\* Entry of read_until: the window is seeded with bytes.len() zeros and the
\* idle counter starts at 0.
CallReadUntil(site, term, ech) ==
  /\ pc' = "read_until"
  /\ wait' = site
  /\ bytes' = term
  /\ echo' = ech
  /\ deque' = Zeros(Len(term))
  /\ timeout_count' = 0
  /\ stream' = <<>>

\* read_until's locals at a return that starts no further read_until.
RuKeep(d, st) ==
  /\ deque' = d
  /\ stream' = st
  /\ UNCHANGED <<wait, bytes, echo, timeout_count>>

\* ReadUntilReturn with the third end-marker wait left out.
ReadUntilReturnTwoWaits(site, d, st) ==
  CASE site = "raw1" ->
         /\ pc' = "soft_reset"
         /\ RuKeep(d, st)
         /\ UNCHANGED result
    [] site = "reboot" ->
         /\ CallReadUntil("raw2", Terminator("raw2"), Echo("raw2"))
         /\ UNCHANGED result
    [] site = "raw2" ->
         /\ CallReadUntil("prompt", Terminator("prompt"), Echo("prompt"))
         /\ UNCHANGED result
    [] site = "prompt" ->
         /\ pc' = "request_paste"
         /\ RuKeep(d, st)
         /\ UNCHANGED result
    [] site = "eot" ->
         /\ CallReadUntil("stdout", Terminator("stdout"), Echo("stdout"))
         /\ UNCHANGED result
    [] site \in {"stdout", "stderr"} ->
         /\ pc' = "done"
         /\ result' = "Ok"
         /\ RuKeep(d, st)
    [] site = "standalone" ->
         /\ pc' = "returned"
         /\ result' = "Ok"
         /\ RuKeep(d, st)

\* What execute does when the read_until called at `site` returns Ok(()).
ReadUntilReturn(site, d, st) ==
  CASE site = "raw1" ->
         /\ pc' = "soft_reset"
         /\ RuKeep(d, st)
         /\ UNCHANGED result
    [] site = "reboot" ->
         /\ CallReadUntil("raw2", Terminator("raw2"), Echo("raw2"))
         /\ UNCHANGED result
    [] site = "raw2" ->
         /\ CallReadUntil("prompt", Terminator("prompt"), Echo("prompt"))
         /\ UNCHANGED result
    [] site = "prompt" ->
         /\ pc' = "request_paste"
         /\ RuKeep(d, st)
         /\ UNCHANGED result
    [] site = "eot" ->
         /\ CallReadUntil("stdout", Terminator("stdout"), Echo("stdout"))
         /\ UNCHANGED result
    [] site = "stdout" ->
         /\ CallReadUntil("stderr", Terminator("stderr"), Echo("stderr"))
         /\ UNCHANGED result
    [] site = "stderr" ->
         /\ pc' = "done"
         /\ result' = "Ok"
         /\ RuKeep(d, st)
    [] site = "standalone" ->
         /\ pc' = "returned"
         /\ result' = "Ok"
         /\ RuKeep(d, st)

\* char::from(u8): the code point U+0000..U+00FF with the byte's value.
CharFrom(byte) == byte

\* print!("{}", c): stdout receives the UTF-8 encoding of the code point,
\* one byte below U+0080 and two bytes from U+0080 to U+07FF.
Utf8(c) ==
  IF c < 128 THEN <<c>>
  ELSE <<192 + (c \div 64), 128 + (c % 64)>>

\* The window after one received byte: pop_front, push_back.
Shift(d, byte) == IF d = <<>> THEN <<byte>> ELSE Append(Tail(d), byte)

\* deque.iter().copied().collect::<Vec<u8>>() == bytes
Matches(d, term) == d = term

\* Exceeded with the budget taken as a count of timed-out reads.
ExceededUnscaled(count, t) == count > t

\* The idle budget is exceeded: timeout_count > timeout * 100.
Exceeded(count, t) == count > t * TicksPerUnit

Fail(err) ==
  /\ pc' = "failed"
  /\ result' = err

\* port.read returned Ok(1): slide the window, echo, compare.
ReadUntilByte ==
  /\ pc = "read_until"
  /\ rx # <<>>
  /\ LET byte == Head(rx)
         d == Shift(deque, byte)
         st == Append(stream, byte)
     IN /\ rx' = Tail(rx)
        /\ echoed' = IF echo THEN echoed \o Utf8(CharFrom(byte)) ELSE echoed
        /\ echo_input' = IF wait \in {"stdout", "stderr"}
                           THEN Append(echo_input, byte)
                           ELSE echo_input
        /\ IF Matches(d, bytes)
             THEN /\ ReadUntilReturn(wait, d, st)
                  /\ waits_done' =
                       Append(waits_done, [site |-> wait, echo |-> echo,
                                           writes |-> Len(writes)])
             ELSE /\ RuKeep(d, st)
                  /\ UNCHANGED <<pc, result, waits_done>>
  /\ UNCHANGED <<discVars, flush_read, script, timeout, writes, hostLocals,
                 grants_read, devVars>>

\* ReadUntilTimedOut giving up the wait and carrying on with the session
\* when the budget is exceeded.
ReadUntilTimedOutCarriesOn ==
  /\ pc = "read_until"
  /\ rx = <<>>
  /\ IF timeout # None
       THEN /\ timeout_count' = timeout_count + 1
            /\ IF Exceeded(timeout_count + 1, timeout[1])
                 THEN /\ pc' = IF wait \in {"raw1"} THEN "soft_reset"
                               ELSE IF wait \in {"reboot", "raw2", "prompt"}
                                 THEN "request_paste"
                               ELSE "failed"
                      /\ result' = IF wait \in {"raw1", "reboot", "raw2",
                                                "prompt"}
                                     THEN result ELSE "Timeout"
                 ELSE UNCHANGED <<pc, result>>
       ELSE UNCHANGED <<pc, result, timeout_count>>
  /\ UNCHANGED <<discVars, flush_read, echo_input, script, timeout,
                 writes, rx, hostLocals, wait, bytes, echo, deque, echoed,
                 stream, grants_read, waits_done, devVars>>

\* port.read returned Err(TimedOut): count it against the budget, if any.
ReadUntilTimedOut ==
  /\ pc = "read_until"
  /\ rx = <<>>
  /\ IF timeout # None
       THEN /\ timeout_count' = timeout_count + 1
            /\ IF Exceeded(timeout_count + 1, timeout[1])
                 THEN Fail("Timeout")
                 ELSE UNCHANGED <<pc, result>>
       ELSE UNCHANGED <<pc, result, timeout_count>>
  /\ UNCHANGED <<discVars, flush_read, echo_input, script, timeout,
                 writes, rx, hostLocals, wait, bytes, echo, deque, echoed,
                 stream, grants_read, waits_done, devVars>>

\* port.read returned Ok(0): "Unable to read".
ReadUntilZero ==
  /\ pc = "read_until"
  /\ rx = <<>>
  /\ Fail("StreamClosed")
  /\ UNCHANGED <<discVars, flush_read, echo_input, script, timeout,
                 writes, rx, hostLocals, ruLocals, echoed, grants_read,
                 waits_done, devVars>>

\* ------------------------------------------------------------- execute
\* Ctrl-C twice: interrupt any running program.
Interrupt ==
  /\ pc = "interrupt"
  /\ Write("interrupt", InterruptBytes)
  /\ pc' = "flush"
  /\ UNCHANGED <<discVars, flush_read, echo_input, script, timeout,
                 result, rx, hostLocals, ruLocals, echoed, grants_read,
                 waits_done, devVars>>

\* Flush loop, port.read into the 16-byte buffer returned Ok(n), n >= 1:
\* the bytes are discarded and the loop continues.
FlushRead ==
  /\ pc = "flush"
  /\ rx # <<>>
  /\ rx' = SubSeq(rx, Min(Len(rx), BUFFER_SIZE) + 1, Len(rx))
  /\ flush_read' = "bytes"
  /\ UNCHANGED <<discVars, echo_input, script, timeout, pc, result,
                 writes, hostLocals, ruLocals, echoed, grants_read,
                 waits_done, devVars>>

\* FlushZero leaving the loop on a read of zero bytes.
FlushZeroBreaks ==
  /\ pc = "flush"
  /\ rx = <<>>
  /\ pc' = "enter_raw"
  /\ flush_read' = "zero"
  /\ UNCHANGED <<discVars, echo_input, script, timeout, result, writes,
                 rx, hostLocals, ruLocals, echoed, grants_read, waits_done,
                 devVars>>

\* Flush loop, port.read returned Ok(0): `Ok(_) => continue` all the same.
FlushZero ==
  /\ pc = "flush"
  /\ rx = <<>>
  /\ flush_read' = "zero"
  /\ UNCHANGED <<discVars, echo_input, script, timeout, pc, result,
                 writes, rx, hostLocals, ruLocals, echoed, grants_read,
                 waits_done, devVars>>

\* Flush loop, port.read timed out: leave the loop.
FlushTimedOut ==
  /\ pc = "flush"
  /\ rx = <<>>
  /\ pc' = "enter_raw"
  /\ flush_read' = "timeout"
  /\ UNCHANGED <<discVars, echo_input, script, timeout, result, writes,
                 rx, hostLocals, ruLocals, echoed, grants_read, waits_done,
                 devVars>>

\* SoftReset going on to the paste request without the three waits.
SoftResetNoWaits ==
  /\ pc = "soft_reset"
  /\ Write("soft_reset", EndMarker)
  /\ pc' = "request_paste"
  /\ UNCHANGED <<discVars, flush_read, echo_input, script, timeout,
                 result, rx, hostLocals, ruLocals, echoed, grants_read,
                 waits_done, devVars>>

EnterRaw ==
  /\ pc = "enter_raw"
  /\ Write("enter_raw", EnterRawBytes)
  /\ CallReadUntil("raw1", Terminator("raw1"), Echo("raw1"))
  /\ UNCHANGED <<discVars, flush_read, echo_input, script, timeout,
                 result, rx, hostLocals, echoed, grants_read, waits_done,
                 devVars>>

SoftReset ==
  /\ pc = "soft_reset"
  /\ Write("soft_reset", EndMarker)
  /\ CallReadUntil("reboot", Terminator("reboot"), Echo("reboot"))
  /\ UNCHANGED <<discVars, flush_read, echo_input, script, timeout,
                 result, rx, hostLocals, echoed, grants_read, waits_done,
                 devVars>>

RequestPaste ==
  /\ pc = "request_paste"
  /\ Write("request_paste", PasteRequest)
  /\ pc' = "negotiate"
  /\ UNCHANGED <<discVars, flush_read, echo_input, script, timeout,
                 result, rx, hostLocals, ruLocals, echoed, grants_read,
                 waits_done, devVars>>

\* NegotiateOutcome deciding on the flag byte alone.
NegotiateOutcomeFlagOnly(b0, b1) ==
  IF b1 = 0 THEN "UnsupportedBulkMode"
  ELSE IF b1 = 1 THEN ""
  ELSE "UnknownResponse"

\* The outcome of the two response bytes: "" is "proceed".
NegotiateOutcome(b0, b1) ==
  IF b0 = 82 /\ b1 = 0 THEN "UnsupportedBulkMode"
  ELSE IF b0 = 82 /\ b1 = 1 THEN ""
  ELSE "UnknownResponse"

\* read_exact of the 2 response bytes, then the match on them.
Negotiate ==
  /\ pc = "negotiate"
  /\ Len(rx) >= 2
  /\ rx' = SubSeq(rx, 3, Len(rx))
  /\ LET out == NegotiateOutcome(rx[1], rx[2])
     IN IF out = ""
          THEN /\ pc' = "read_window"
               /\ UNCHANGED result
          ELSE Fail(out)
  /\ UNCHANGED <<discVars, flush_read, echo_input, script, timeout,
                 writes, hostLocals, ruLocals, echoed, grants_read,
                 waits_done, devVars>>

\* Little-endian 16-bit: b0 | b1 << 8.
\* Bitwise or of two unsigned integers.
RECURSIVE BitOr(_, _)
BitOr(a, b) ==
  IF a = 0 THEN b
  ELSE IF b = 0 THEN a
  ELSE (IF a % 2 = 1 \/ b % 2 = 1 THEN 1 ELSE 0)
       + 2 * BitOr(a \div 2, b \div 2)

\* a << n on usize; the operands here are below 2^16, so nothing wraps.
Shl(a, n) == a * 2^n

\* WindowSize with the shift applied to the whole or-expression.
WindowSizeShiftAll(b0, b1) == Shl(BitOr(b0, b1), 8)

\* (double_buf[0] as usize) | (double_buf[1] as usize) << 8
WindowSize(b0, b1) == BitOr(b0, Shl(b1, 8))

\* read_exact of the 2 window bytes; window_remain = 0; i = 0.
ReadWindow ==
  /\ pc = "read_window"
  /\ Len(rx) >= 2
  /\ rx' = SubSeq(rx, 3, Len(rx))
  /\ window_size' = WindowSize(rx[1], rx[2])
  /\ window_remain' = 0
  /\ i' = 0
  /\ pc' = "outer"
  /\ UNCHANGED <<discVars, flush_read, echo_input, script, timeout,
                 result, writes, byte_buf, ruLocals, echoed, grants_read,
                 waits_done, devVars>>

\* A read_exact that cannot be filled before the port's read timeout: the
\* TimedOut error is propagated by `?`; what was pending is consumed.
ReadExactTimedOut ==
  /\ pc \in {"negotiate", "read_window"}
  /\ Len(rx) < 2
  /\ rx' = <<>>
  /\ Fail("IoTimedOut")
  /\ UNCHANGED <<discVars, flush_read, echo_input, script, timeout,
                 writes, hostLocals, ruLocals, echoed, grants_read,
                 waits_done, devVars>>

\* OuterLoop going round once more when the offset has reached the end.
OuterLoopInclusive ==
  /\ pc = "outer"
  /\ pc' = IF i <= Len(script) THEN "inner" ELSE "end_marker"
  /\ UNCHANGED <<discVars, flush_read, echo_input, script, timeout,
                 result, writes, rx, hostLocals, ruLocals, echoed,
                 grants_read, waits_done, devVars>>

\* while i < script.len()
OuterLoop ==
  /\ pc = "outer"
  /\ pc' = IF i < Len(script) THEN "inner" ELSE "end_marker"
  /\ UNCHANGED <<discVars, flush_read, echo_input, script, timeout,
                 result, writes, rx, hostLocals, ruLocals, echoed,
                 grants_read, waits_done, devVars>>

\* NeedControl looking at the credit only, not at the pending bytes.
NeedControlCreditOnly(remain, pending) == remain = 0

\* while window_remain == 0 || port.bytes_to_read()? > 0
NeedControl(remain, pending) == remain = 0 \/ pending > 0

InnerLoop ==
  /\ pc = "inner"
  /\ pc' = IF NeedControl(window_remain, Len(rx)) THEN "control" ELSE "send"
  /\ UNCHANGED <<discVars, flush_read, echo_input, script, timeout,
                 result, writes, rx, hostLocals, ruLocals, echoed,
                 grants_read, waits_done, devVars>>

\* MatchControl with the abrupt-end byte taken for an unexpected byte.
MatchControlNoAbruptEnd(b) ==
  CASE b = 1 ->
         /\ window_remain' = window_remain + window_size
         /\ pc' = "inner"
         /\ UNCHANGED <<result, writes>>
    [] OTHER ->
         /\ Fail("ProtocolError")
         /\ UNCHANGED <<window_remain, writes>>

\* match byte_buf, with b the buffer's content after the read_exact.
MatchControl(b) ==
  CASE b = 1 ->
         /\ window_remain' = window_remain + window_size
         /\ pc' = "inner"
         /\ UNCHANGED <<result, writes>>
    [] b = 4 ->
         /\ Write("abrupt_end", EndMarker)
         /\ Fail("AbruptEnd")
         /\ UNCHANGED window_remain
    [] OTHER ->
         /\ Fail("ProtocolError")
         /\ UNCHANGED <<window_remain, writes>>

\* read_exact(&mut byte_buf) returned Ok: the buffer holds the byte read.
ControlRead ==
  /\ pc = "control"
  /\ rx # <<>>
  /\ byte_buf' = Head(rx)
  /\ rx' = Tail(rx)
  /\ grants_read' = IF Head(rx) = 1 THEN grants_read + 1 ELSE grants_read
  /\ MatchControl(Head(rx))
  /\ UNCHANGED <<discVars, flush_read, echo_input, script, timeout,
                 window_size, i, ruLocals, echoed, waits_done, devVars>>

\* read_exact(&mut byte_buf) timed out: the error is dropped and the buffer
\* keeps what it held; the match runs on it all the same.
ControlTimedOut ==
  /\ pc = "control"
  /\ rx = <<>>
  /\ MatchControl(byte_buf)
  /\ UNCHANGED <<discVars, flush_read, echo_input, script, timeout, rx,
                 byte_buf, window_size, i, ruLocals, echoed, grants_read,
                 waits_done, devVars>>

\* ChunkSize sending one byte per write.
ChunkSizeByOne(remain, left) == Min(Min(remain, left), 1)

\* ChunkSize ignoring the credit.
ChunkSizeNoCredit(remain, left) == left

\* let chunk_size = min(window_remain, script_bytes.len() - i);
ChunkSize(remain, left) == Min(remain, left)

\* chunk = script_bytes[i..i + chunk_size]; write it; account for it.
SendChunk ==
  /\ pc = "send"
  /\ LET chunk_size == ChunkSize(window_remain, Len(script) - i)
         chunk == SubSeq(script, i + 1, i + chunk_size)
     IN /\ Write("payload", chunk)
        /\ window_remain' = window_remain - Len(chunk)
        /\ i' = i + Len(chunk)
  /\ pc' = "outer"
  /\ UNCHANGED <<discVars, flush_read, echo_input, script, timeout,
                 result, rx, byte_buf, window_size, ruLocals, echoed,
                 grants_read, waits_done, devVars>>

\* End of transmission, then the first of the three end-marker waits.
SendEndMarker ==
  /\ pc = "end_marker"
  /\ Write("end_marker", EndMarker)
  /\ CallReadUntil("eot", Terminator("eot"), Echo("eot"))
  /\ UNCHANGED <<discVars, flush_read, echo_input, script, timeout,
                 result, rx, hostLocals, echoed, grants_read, waits_done,
                 devVars>>

\* Any port read (or bytes_to_read) failing with an error other than
\* TimedOut: every call site propagates it.
PortError ==
  /\ \/ pc \in {"flush", "read_until", "negotiate", "read_window", "control"}
     \/ pc = "inner" /\ window_remain # 0
  /\ Fail("IoError")
  /\ UNCHANGED <<discVars, flush_read, echo_input, script, timeout,
                 writes, rx, hostLocals, ruLocals, echoed, grants_read,
                 waits_done, devVars>>

\* -------------------------------------------------------------- device
\* The device side of the port.  It answers the phase the host is in: the
\* next byte of the text the host waits for or, between two such texts, a
\* byte that is part of none; during the paste, flow-control bytes.  The
\* window sizes it announces are 0, 1, 2 and 256..258; to the 300-byte
\* script only 256..258.

\* A byte ('!') that is part of no text the host waits for, and a control
\* byte that is neither credit-grant nor abrupt-end.
JunkBytes == {33}
OtherControls == {7}

\* The longest suffix of s that is a prefix of t.
Progress(t, s) ==
  CHOOSE k \in 0..Min(Len(t), Len(s)) :
    /\ Last(s, k) = SubSeq(t, 1, k)
    /\ \A m \in (k + 1)..Min(Len(t), Len(s)) : Last(s, m) # SubSeq(t, 1, m)

\* A byte of program output that is not ASCII, offered while the host
\* echoes.
HighBytes == {195}

Junk ==
  IF junk_sent < MaxJunk
    THEN JunkBytes \cup (IF pc = "read_until" /\ echo THEN HighBytes ELSE {})
    ELSE {}

InPaste == pc \in {"outer", "inner", "control", "send"}

RUBytes == {0, 4}

DeviceOffer ==
  IF pc = "read_until" /\ wait = "standalone"
    THEN IF Len(stream) + Len(rx) < MaxStream THEN RUBytes ELSE {}
  ELSE IF pc = "read_until"
    THEN LET k == Progress(bytes, deque \o rx)
         IN IF k = Len(bytes) THEN {}
            ELSE {bytes[k + 1]} \cup (IF k = 0 THEN Junk ELSE {})
  ELSE IF pc = "flush" THEN Junk
  ELSE IF pc = "negotiate" THEN {82, 0, 1}
  ELSE IF pc = "read_window"
    THEN (IF rx = <<>> THEN {0, 1, 2}
          ELSE IF Len(script) > MaxLen THEN {1} ELSE {0, 1})
  ELSE IF InPaste
    THEN (IF grants_sent < MaxGrants THEN {1} ELSE {})
         \cup {4} \cup OtherControls
  ELSE {}

DeviceSend ==
  /\ ~silent
  /\ Len(rx) < MaxRx
  /\ \E b \in DeviceOffer :
       /\ rx' = Append(rx, b)
       /\ junk_sent' = IF b \in JunkBytes \cup HighBytes
                         THEN junk_sent + 1 ELSE junk_sent
       /\ grants_sent' = IF InPaste /\ b = 1 THEN grants_sent + 1
                         ELSE grants_sent
  /\ UNCHANGED <<discVars, flush_read, echo_input, script, timeout, pc,
                 result, writes, hostLocals, ruLocals, echoed, grants_read,
                 waits_done, silent>>

\* The device stops sending for good.
DeviceSilence ==
  /\ ~silent
  /\ pc \notin {"done", "failed", "returned"}
  /\ silent' = TRUE
  /\ UNCHANGED <<discVars, flush_read, echo_input, script, timeout, pc,
                 result, writes, rx, hostLocals, ruLocals, echoed,
                 grants_read, waits_done, grants_sent, junk_sent>>

\* ------------------------------------------------------ specifications
\* The small scripts, and the 300-byte script of the spec's scenario.
Scripts == {Payload(L) : L \in 0..MaxLen} \cup {Payload(300)}

InitCommon ==
  /\ result = "none"
  /\ writes = <<>>
  /\ rx = <<>>
  /\ byte_buf = 0
  /\ window_size = 0
  /\ window_remain = 0
  /\ i = 0
  /\ timeout_count = 0
  /\ echoed = <<>>
  /\ stream = <<>>
  /\ grants_read = 0
  /\ waits_done = <<>>
  /\ flush_read = "none"
  /\ echo_input = <<>>
  /\ grants_sent = 0
  /\ junk_sent = 0
  /\ silent = FALSE

\* Discovery is not running.
NoDiscovery ==
  /\ ports = <<>>
  /\ p_idx = 0
  /\ micropython_ports = <<>>
  /\ printed = <<>>

\* execute(device, script, timeout), the port just opened.
Init ==
  /\ InitCommon
  /\ NoDiscovery
  /\ script \in Scripts
  /\ timeout \in {None, Some(0)}
  /\ pc = "interrupt"
  /\ wait = "none"
  /\ bytes = <<>>
  /\ echo = FALSE
  /\ deque = <<>>

Host ==
  \/ Interrupt
  \/ FlushRead
  \/ FlushZero
  \/ FlushTimedOut
  \/ EnterRaw
  \/ ReadUntilByte
  \/ ReadUntilTimedOut
  \/ ReadUntilZero
  \/ SoftReset
  \/ RequestPaste
  \/ Negotiate
  \/ ReadWindow
  \/ ReadExactTimedOut
  \/ OuterLoop
  \/ InnerLoop
  \/ ControlRead
  \/ ControlTimedOut
  \/ SendChunk
  \/ SendEndMarker
  \/ PortError

\* The device that stops sending is already a behaviour of Next: the one
\* in which DeviceSend is not taken again.
Next == Host \/ DeviceSend

Spec == Init /\ [][Next]_vars

\* read_until(port, bytes, echo, timeout) on its own, for every terminator
\* of 1..MaxTermLen bytes.
RECURSIVE Words(_, _)
Words(A, n) ==
  IF n = 0 THEN {<<>>}
  ELSE {Append(w, a) : w \in Words(A, n - 1), a \in A}

Terminators == UNION {Words(RUBytes, n) : n \in 1..MaxTermLen}

InitRU ==
  /\ InitCommon
  /\ NoDiscovery
  /\ script = <<>>
  /\ timeout \in {None} \cup {Some(t) : t \in 0..MaxBudget}
  /\ pc = "read_until"
  /\ wait = "standalone"
  /\ bytes \in Terminators
  /\ echo \in BOOLEAN
  /\ deque = Zeros(Len(bytes))

NextRU ==
  \/ ReadUntilByte
  \/ ReadUntilTimedOut
  \/ ReadUntilZero
  \/ PortError
  \/ DeviceSend

SpecRU == InitRU /\ [][NextRU]_vars

\* execute with an idle budget configured, the host always taking its next
\* step: execute is one thread that never blocks for longer than the port's
\* 10 ms read timeout plus the 10 ms sleep.
InitFair == Init /\ timeout # None

\* The same steps, with the moment the device falls silent marked.
NextFair == Next \/ DeviceSilence

SpecFair == InitFair /\ [][NextFair]_vars /\ WF_vars(Host)

\* execute from the read of the two window bytes on, for window bytes over
\* the whole range of a byte: the handshake is over and the device has
\* answered [82, 1].
WinBytes == {0, 1, 2, 128, 255}

InitWin ==
  /\ NoDiscovery
  /\ script \in {Payload(L) : L \in 1..MaxLen}
  /\ timeout = None
  /\ pc = "read_window"
  /\ result = "none"
  /\ writes = <<[site |-> "interrupt", data |-> InterruptBytes],
                [site |-> "enter_raw", data |-> EnterRawBytes],
                [site |-> "soft_reset", data |-> EndMarker],
                [site |-> "request_paste", data |-> PasteRequest]>>
  /\ rx \in {<<b0, b1>> : b0 \in WinBytes, b1 \in WinBytes}
  /\ byte_buf = 0
  /\ window_size = 0
  /\ window_remain = 0
  /\ i = 0
  /\ wait = "prompt"
  /\ bytes = Prompt
  /\ echo = FALSE
  /\ deque = Prompt
  /\ timeout_count = 0
  /\ echoed = <<>>
  /\ stream = Prompt
  /\ grants_read = 0
  /\ waits_done = <<[site |-> "raw1", echo |-> FALSE, writes |-> 2],
                    [site |-> "reboot", echo |-> FALSE, writes |-> 3],
                    [site |-> "raw2", echo |-> FALSE, writes |-> 3],
                    [site |-> "prompt", echo |-> FALSE, writes |-> 3]>>
  /\ flush_read = "timeout"
  /\ echo_input = <<>>
  /\ grants_sent = 0
  /\ junk_sent = 0
  /\ silent = FALSE

NextWin ==
  \/ ReadWindow
  \/ OuterLoop
  \/ InnerLoop
  \/ ControlRead
  \/ ControlTimedOut
  \/ SendChunk
  \/ DeviceSend

SpecWin == InitWin /\ [][NextWin]_vars

\* ------------------------------------------------- device discovery
MaxPorts == 2      \* most ports available_ports() returns

\* "/dev/cu."
AliasPrefix == <<47, 100, 101, 118, 47, 99, 117, 46>>

\* "/dev/cu.u", "/dev/cu.", "/dev/cu" and "/dev/ttyU"
PortNames == {AliasPrefix \o <<117>>, AliasPrefix,
              SubSeq(AliasPrefix, 1, 7),
              <<47, 100, 101, 118, 47, 116, 116, 121, 85>>}

Manufacturers == {"MicroPython", "micropython", "MicroPython Inc"}

\* SerialPortInfo: only the UsbPort variant carries a UsbPortInfo, whose
\* manufacturer is an Option<String>.
PortInfos ==
  [port_name : PortNames, port_type : {"UsbPort"},
   manufacturer : {None} \cup {Some(m) : m \in Manufacturers}]
  \cup [port_name : PortNames, port_type : {"PciPort", "Unknown"},
        manufacturer : {None}]

\* Lists of at most MaxPorts ports, no two with the same path.
RECURSIVE PortLists(_)
PortLists(n) ==
  IF n = 0 THEN {<<>>}
  ELSE PortLists(n - 1)
       \cup {Append(l, p) : l \in {q \in PortLists(n - 1) : Len(q) = n - 1},
                            p \in PortInfos}

DistinctNames(l) ==
  \A a, b \in 1..Len(l) : a # b => l[a].port_name # l[b].port_name

\* str::starts_with
StartsWith(s, prefix) ==
  /\ Len(s) >= Len(prefix)
  /\ SubSeq(s, 1, Len(prefix)) = prefix

\* The alias test that skips no port.
SkipAliasNever(p) == FALSE

\* if p.port_name.starts_with("/dev/cu.") { continue; }
SkipAlias(p) == StartsWith(p.port_name, AliasPrefix)

\* if let SerialPortType::UsbPort(info) and if let Some(manufacturer)
HasManufacturer(p) == p.port_type = "UsbPort" /\ p.manufacturer # None

sessionVars == <<script, timeout, writes, rx, hostLocals, ruLocals, echoed,
                 grants_read, waits_done, flush_read, echo_input,
                 devVars>>

\* let ports = serialport::available_ports()?;  -- the Ok case
Enumerate ==
  /\ pc = "find"
  /\ \E l \in PortLists(MaxPorts) :
       /\ DistinctNames(l)
       /\ ports' = l
  /\ pc' = "for"
  /\ UNCHANGED <<sessionVars, result, p_idx, micropython_ports, printed>>

\* available_ports() returned Err: `?` returns it.
EnumerateError ==
  /\ pc = "find"
  /\ pc' = "failed"
  /\ result' = "EnumerationError"
  /\ UNCHANGED <<sessionVars, discVars>>

\* One iteration of `for p in ports`.
DiscoverStep ==
  /\ pc = "for"
  /\ p_idx < Len(ports)
  /\ p_idx' = p_idx + 1
  /\ LET p == ports[p_idx + 1] IN
       IF SkipAlias(p)
         THEN UNCHANGED <<micropython_ports, printed>>
         ELSE IF HasManufacturer(p)
           THEN /\ printed' = Append(printed, <<p.port_name,
                                                p.manufacturer[1]>>)
                /\ micropython_ports' =
                     IF p.manufacturer[1] = "MicroPython"
                       THEN Append(micropython_ports, p.port_name)
                       ELSE micropython_ports
           ELSE UNCHANGED <<micropython_ports, printed>>
  /\ UNCHANGED <<sessionVars, pc, result, ports>>

\* The loop is over: Ok(micropython_ports)
DiscoverReturn ==
  /\ pc = "for"
  /\ p_idx = Len(ports)
  /\ pc' = "discovered"
  /\ result' = "Ok"
  /\ UNCHANGED <<sessionVars, discVars>>

\* find_micropython_devices() called.
InitDisc ==
  /\ InitCommon
  /\ NoDiscovery
  /\ script = <<>>
  /\ timeout = None
  /\ pc = "find"
  /\ wait = "none"
  /\ bytes = <<>>
  /\ echo = FALSE
  /\ deque = <<>>

NextDisc ==
  \/ Enumerate
  \/ EnumerateError
  \/ DiscoverStep
  \/ DiscoverReturn

SpecDisc == InitDisc /\ [][NextDisc]_vars

\* ------------------------------------------------- derived quantities
WritesAt(site) == {k \in 1..Len(writes) : writes[k].site = site}

PayloadWrites == SelectSeq(writes, LAMBDA w : w.site = "payload")

RECURSIVE Concat(_)
Concat(ws) == IF ws = <<>> THEN <<>> ELSE Head(ws).data \o Concat(Tail(ws))

\* All payload bytes written so far, in the order written.
PayloadBytes == Concat(PayloadWrites)

LastWrite == writes[Len(writes)]

\* The step appends a payload chunk to the log.
PayloadStep ==
  /\ Len(writes') = Len(writes) + 1
  /\ writes'[Len(writes')].site = "payload"

Ended == pc \in {"done", "failed"}

AfterTransfer ==
  \/ pc = "done"
  \/ pc = "read_until" /\ wait \in {"eot", "stdout", "stderr"}

\* -------------------------------------------------------------- claims

\* C1: the payload written so far never exceeds unit_size times the number
\* of credit-grant bytes read from the port, and remaining credit is never
\* negative -- also after a control-byte read that timed out.
C1_PayloadWithinGrantedCredit ==
  /\ Len(PayloadBytes) <= window_size * grants_read
  /\ window_remain >= 0

C2_State ==
  /\ Len(PayloadBytes) <= Len(script)
  /\ PayloadBytes = SubSeq(script, 1, Len(PayloadBytes))
  /\ \A k \in WritesAt("end_marker") :
       /\ k = Len(writes)
       /\ writes[k].data = <<4>>
       /\ PayloadBytes = script
  /\ AfterTransfer => WritesAt("end_marker") # {}

C2_Step ==
  PayloadStep => Len(writes'[Len(writes')].data) <= window_remain

\* C2: the payload written is always a prefix of the script, never longer
\* than it; each chunk is no larger than the credit at the moment of its
\* write; a transfer that completes has written the whole script and then
\* exactly one end-marker byte, the last write of the session.
C2_TransferExact == []C2_State /\ [][C2_Step]_vars

C2_Witness ==
  /\ WritesAt("end_marker") # {}
  /\ Len(PayloadWrites) >= 2

C3_State ==
  result = "AbruptEnd" =>
    /\ pc = "failed"
    /\ writes # <<>>
    /\ LastWrite = [site |-> "abrupt_end", data |-> <<4>>]
    /\ Cardinality(WritesAt("abrupt_end")) = 1
    /\ WritesAt("end_marker") = {}

C3_Step ==
  /\ (pc = "control" /\ rx # <<>> /\ rx' = Tail(rx) /\ Head(rx) = 4) =>
       /\ result' = "AbruptEnd"
       /\ writes' = Append(writes, [site |-> "abrupt_end", data |-> <<4>>])
  /\ result = "AbruptEnd" => writes' = writes

\* C3: reading an abrupt-end byte (0x04) as a control byte makes the host
\* write exactly one end-marker byte and fail with AbruptEnd; nothing is
\* written after it, whatever credit or payload remained.
C3_AbruptEnd == []C3_State /\ [][C3_Step]_vars

C3_Witness ==
  /\ result = "AbruptEnd"
  /\ window_remain > 0
  /\ 0 < i
  /\ i < Len(script)

C4_Step ==
  /\ (pc = "negotiate" /\ Len(rx) >= 2 /\ rx' = SubSeq(rx, 3, Len(rx))) =>
       /\ writes' = writes
       /\ IF rx[1] = 82 /\ rx[2] = 0
            THEN pc' = "failed" /\ result' = "UnsupportedBulkMode"
          ELSE IF rx[1] = 82 /\ rx[2] = 1
            THEN pc' = "read_window" /\ result' = "none"
          ELSE pc' = "failed" /\ result' = "UnknownResponse"
  /\ result \in {"UnsupportedBulkMode", "UnknownResponse"} => writes' = writes

C4_State ==
  result \in {"UnsupportedBulkMode", "UnknownResponse"} =>
    /\ pc = "failed"
    /\ LastWrite = [site |-> "request_paste", data |-> <<5, 65, 1>>]
    /\ WritesAt("payload") = {}
    /\ WritesAt("end_marker") \cup WritesAt("abrupt_end") = {}

\* C4: the two response bytes alone decide Negotiate: [82,0] fails with
\* UnsupportedBulkMode, [82,1] proceeds to ReadWindow, any other pair fails
\* with UnknownResponse; after either failure the bulk-paste request is the
\* last write: no payload byte and no end-marker byte follows it.
C4_Negotiate == []C4_State /\ [][C4_Step]_vars

C4_Witness == result = "UnsupportedBulkMode"

\* C5: read_until returns success at the first byte at which the last N
\* received bytes equal the N-byte terminator, and at that byte exactly.
C5_EarliestMatch ==
  pc = "returned" =>
    /\ Len(stream) >= Len(bytes)
    /\ Last(stream, Len(bytes)) = bytes
    /\ \A j \in Len(bytes)..(Len(stream) - 1) :
         Last(SubSeq(stream, 1, j), Len(bytes)) # bytes

\* C6: read_until never returns success before it has received N bytes.
C6_NeedsNBytes == pc = "returned" => Len(stream) >= Len(bytes)

C7_State ==
  /\ result = "Ok" <=> pc = "done"
  /\ pc = "failed" => result \notin {"Ok", "none"}
  /\ pc = "done" =>
       /\ Len(waits_done) >= 3
       /\ LET n == Len(writes)
          IN /\ n > 0
             /\ LastWrite.site = "end_marker"
             /\ Last(waits_done, 3) =
                  << [site |-> "eot", echo |-> FALSE, writes |-> n],
                     [site |-> "stdout", echo |-> TRUE, writes |-> n],
                     [site |-> "stderr", echo |-> TRUE, writes |-> n] >>

C7_Step ==
  (pc = "read_until" /\ wait \in {"eot", "stdout", "stderr"} /\ pc' = "failed")
    => result' \in {"Timeout", "StreamClosed", "IoError"}

C8_BudgetInReads ==
  (pc = "read_until" /\ timeout # None) => timeout_count <= timeout[1]

C8_State ==
  /\ (pc = "read_until" /\ timeout # None) =>
       timeout_count <= timeout[1] * 100
  /\ result = "Timeout" =>
       /\ timeout # None
       /\ timeout_count = timeout[1] * 100 + 1
  /\ timeout = None => timeout_count = 0

C8_Step ==
  /\ timeout_count' # timeout_count =>
       /\ timeout_count' = timeout_count + 1
       /\ rx = <<>>
       /\ timeout # None
  /\ (pc = "read_until" /\ rx = <<>> /\ timeout # None
        /\ timeout_count = timeout[1] * 100
        /\ timeout_count' # timeout_count) => result' = "Timeout"

\* C8 as amended: the budget T is scaled by 100.  The idle counter changes
\* only by one, only on a read that found nothing, and is never reset by a
\* byte; the wait fails with Timeout exactly when the counter reaches
\* 100*T + 1; with no budget the wait never fails with Timeout.
C8_BudgetScaled == []C8_State /\ [][C8_Step]_vars

C8_Witness ==
  /\ result = "Timeout"
  /\ timeout = Some(1)
  /\ stream # <<>>

\* C9: with an idle budget configured, once the device has stopped sending
\* the session ends.
C9_SilentDeviceEnds == silent ~> Ended

C10_State == WritesAt("payload") # {} => grants_read >= 1

C10_Step ==
  PayloadStep =>
    LET n == Len(writes'[Len(writes')].data)
    IN /\ n = Min(window_remain, Len(script) - i)
       /\ (window_size = 256 /\ Len(script) = 300 /\ i = 0
             /\ window_remain = 256) => n = 256
       /\ (window_size = 256 /\ Len(script) = 300 /\ i = 256) => n = 44

\* C10: no payload is written before a credit-grant byte has been read;
\* every chunk is exactly min(remaining_credit, payload_length - offset);
\* with unit size 256 and a 300-byte payload the chunk written at offset 0
\* on one grant's credit is 256 bytes and the chunk at offset 256 is 44.
C10_Chunks == []C10_State /\ [][C10_Step]_vars

C10_Witness ==
  /\ window_size = 256
  /\ Len(script) = 300
  /\ Len(PayloadWrites) = 2
  /\ Len(PayloadWrites[1].data) = 256
  /\ Len(PayloadWrites[2].data) = 44

HandshakeSites == {"raw1", "reboot", "raw2", "prompt"}

WriteSites == [k \in 1..Len(writes) |-> writes[k].site]

C11_State ==
  /\ (timeout # None /\ timeout_count > timeout[1] * 100) =>
       /\ pc = "failed"
       /\ result = "Timeout"
  /\ (pc = "failed" /\ result \in {"Timeout", "StreamClosed"}
        /\ wait = "raw1") => WriteSites = <<"interrupt", "enter_raw">>
  /\ (pc = "failed" /\ result \in {"Timeout", "StreamClosed"}
        /\ wait \in {"reboot", "raw2", "prompt"}) =>
       WriteSites = <<"interrupt", "enter_raw", "soft_reset">>

C11_Step ==
  /\ (pc = "read_until" /\ wait \in HandshakeSites /\ pc' = "failed") =>
       /\ result' \in {"Timeout", "StreamClosed", "IoError"}
       /\ writes' = writes
       /\ UNCHANGED <<wait, bytes, deque, stream, waits_done>>
  /\ pc = "failed" => UNCHANGED vars

\* C11: a handshake wait (raw-mode banner, reboot banner, second raw-mode
\* banner, prompt) that fails ends the session at once: the wait is not
\* started again, execute fails, and no write follows the failure -- the
\* log stays at the writes that had already reached the device.
C11_HandshakeFailureTerminal == []C11_State /\ [][C11_Step]_vars

C11_Witness ==
  /\ pc = "failed"
  /\ result = "Timeout"
  /\ wait = "reboot"
  /\ Len(writes) = 3

\* The USB ports advertising exactly "MicroPython" on a path that does not
\* begin with "/dev/cu.", among the first n enumerated, in enumeration order.
Wanted(p) ==
  /\ p.port_type = "UsbPort"
  /\ p.manufacturer = Some("MicroPython")
  /\ \E k \in 1..Len(AliasPrefix) :
       k > Len(p.port_name) \/ p.port_name[k] # AliasPrefix[k]

RECURSIVE WantedNames(_, _)
WantedNames(l, n) ==
  IF n = 0 THEN <<>>
  ELSE IF Wanted(l[n]) THEN Append(WantedNames(l, n - 1), l[n].port_name)
       ELSE WantedNames(l, n - 1)

\* C13: discovery returns exactly the USB ports whose manufacturer string
\* equals "MicroPython" and whose path does not start with "/dev/cu.", in
\* enumeration order; other port types, USB ports with no or another
\* manufacturer, and alias-named ports are never in the result.
C13_DiscoveryFilter ==
  /\ pc \in {"for", "discovered"} =>
       micropython_ports = WantedNames(ports, p_idx)
  /\ pc = "discovered" =>
       /\ result = "Ok"
       /\ p_idx = Len(ports)
       /\ \A k \in 1..Len(ports) :
            (\E j \in 1..Len(micropython_ports) :
               micropython_ports[j] = ports[k].port_name)
            <=> Wanted(ports[k])

C13_Witness ==
  /\ pc = "discovered"
  /\ Len(ports) = 2
  /\ ports[1].port_name = AliasPrefix \o <<117>>
  /\ ports[1].manufacturer = Some("MicroPython")
  /\ Wanted(ports[2])
  /\ micropython_ports = <<ports[2].port_name>>

HandshakeWrites ==
  <<[site |-> "interrupt", data |-> InterruptBytes],
    [site |-> "enter_raw", data |-> EnterRawBytes],
    [site |-> "soft_reset", data |-> EndMarker],
    [site |-> "request_paste", data |-> PasteRequest]>>

WaitSites == [k \in 1..Len(waits_done) |-> waits_done[k].site]

C14_State ==
  /\ \A k \in 1..Len(writes) :
       IF k <= 4 THEN writes[k] = HandshakeWrites[k]
       ELSE writes[k].site \in {"payload", "end_marker", "abrupt_end"}
  /\ Len(writes) >= 2 => flush_read = "timeout"
  /\ Len(writes) >= 3 =>
       /\ Len(waits_done) >= 1
       /\ waits_done[1].site = "raw1"
       /\ waits_done[1].writes = 2
  /\ Len(writes) >= 4 =>
       /\ Len(waits_done) >= 4
       /\ SubSeq(WaitSites, 2, 4) = <<"reboot", "raw2", "prompt">>
       /\ \A k \in 2..4 : waits_done[k].writes = 3
  /\ pc = "done" =>
       Concat(writes) = InterruptBytes \o EnterRawBytes \o EndMarker
                          \o PasteRequest \o script \o EndMarker

C14_Step ==
  writes' # writes =>
    /\ Len(writes') = Len(writes) + 1
    /\ SubSeq(writes', 1, Len(writes)) = writes
    /\ Len(writes) < 4 =>
         /\ pc = <<"interrupt", "enter_raw", "soft_reset",
                   "request_paste">>[Len(writes) + 1]
         /\ result = "none"

\* C14: the writes of a session come in the fixed handshake order, each
\* only after the wait before it has succeeded: "\r\x03\x03", after Flush
\* "\r\x01", after the raw-mode banner "\x04", after the reboot banner, the
\* raw-mode banner again and the prompt ">" the request "\x05A\x01"; a
\* successful session has written exactly these, the payload and one
\* end-marker.
C14_WriteOrder == []C14_State /\ [][C14_Step]_vars

C14_Witness ==
  /\ pc = "done"
  /\ Len(script) = MaxLen
  /\ Len(writes) >= 6

C15_State == pc = "send" => window_remain > 0

C15_Step ==
  /\ (pc' = "send" /\ pc # "send") =>
       /\ pc = "inner"
       /\ window_remain > 0
       /\ rx = <<>>
  /\ PayloadStep => pc = "send" /\ window_remain > 0
  /\ (pc = "inner" /\ rx # <<>> /\ pc' # "inner") =>
       /\ pc' \in {"control", "failed"}
       /\ writes' = writes
  /\ (pc = "control" /\ rx # <<>> /\ pc' # "control"
        /\ result' # "IoError") =>
       /\ rx' = Tail(rx)
       /\ byte_buf' = Head(rx)
       /\ Head(rx) = 1 =>
            /\ pc' = "inner"
            /\ window_remain' = window_remain + window_size
            /\ writes' = writes
       /\ Head(rx) = 4 =>
            /\ result' = "AbruptEnd"
            /\ WritesAt("payload")' = WritesAt("payload")

\* C15: a payload chunk is written only when the remaining credit is above
\* zero and the port has just reported no pending byte: pending control
\* bytes are read one at a time before the next chunk even with credit
\* left, a pending abrupt-end byte stops the transfer before more payload
\* goes out, and several pending grants add up to more than one unit.
C15_ChunkOnlyWhenQuiet == []C15_State /\ [][C15_Step]_vars

C15_Witness ==
  /\ pc = "send"
  /\ window_size > 0
  /\ grants_read = 2
  /\ window_remain = 2 * window_size
  /\ WritesAt("payload") = {}

C16_Step ==
  /\ (result = "none" /\ result' = "ProtocolError") =>
       /\ pc = "control"
       /\ rx # <<>>
       /\ Head(rx) \notin {1, 4}
       /\ rx' = Tail(rx)
       /\ writes' = writes
  /\ (pc = "control" /\ rx # <<>> /\ Head(rx) \notin {1, 4}
        /\ pc' # "control") => result' \in {"ProtocolError", "IoError"}
  /\ result = "ProtocolError" => writes' = writes

\* C16: the transfer fails with ProtocolError exactly when a control byte
\* other than 0x01 and 0x04 has actually been read from the port, and
\* nothing is written after that failure; a control-byte read that
\* delivers no byte does not produce ProtocolError.
C16_ProtocolErrorOnlyOnByteRead == [][C16_Step]_vars

C17_State ==
  /\ pc = "flush" => WriteSites = <<"interrupt">>
  /\ pc = "enter_raw" => flush_read = "timeout"
  /\ Len(writes) >= 2 => flush_read = "timeout"

C17_Step ==
  /\ (pc = "flush" /\ pc' # "flush") =>
       \/ /\ pc' = "enter_raw"
          /\ flush_read' = "timeout"
          /\ rx = <<>>
          /\ UNCHANGED <<writes, result, echoed>>
       \/ /\ pc' = "failed"
          /\ result' = "IoError"
          /\ writes' = writes
  /\ (pc = "flush" /\ flush_read' \in {"bytes", "zero"}
        /\ <<flush_read, rx>>' # <<flush_read, rx>>) =>
       /\ pc' = "flush"
       /\ UNCHANGED <<writes, result, echoed>>
  /\ (pc = "flush" /\ flush_read' = "bytes" /\ Len(rx') < Len(rx)) =>
       rx' = SubSeq(rx, Len(rx) - Len(rx') + 1, Len(rx))
  /\ flush_read' # flush_read => pc = "flush"

\* C17: the flush loop ends exactly when a read times out: a read that
\* returns, with bytes or with none, is discarded and followed by another
\* read; an error other than a timeout aborts the session; "\r\x01" is
\* written only after the first timed-out read, so reads returning zero
\* bytes keep the loop going.
C17_FlushEndsOnTimeout == []C17_State /\ [][C17_Step]_vars

C17_Witness ==
  /\ pc = "enter_raw"
  /\ flush_read = "timeout"
  /\ junk_sent = 1
  /\ rx = <<>>

RECURSIVE Printed(_)
Printed(s) ==
  IF s = <<>> THEN <<>>
  ELSE Utf8(CharFrom(Head(s))) \o Printed(Tail(s))

\* What stdout holds is, at every moment, the print of exactly the bytes
\* received by the two echoing waits of execute.
EchoedIsPrintOfInput ==
  wait # "standalone" => echoed = Printed(echo_input)

\* C18: the bytes a successful execute has surfaced are exactly the bytes
\* received after the first end-marker that follows the transfer, up to and
\* including the second end-marker and then up to and including the third;
\* no byte of the handshake, the transfer or the first end-marker wait is
\* surfaced.
C18_SurfacedIsDeviceOutput ==
  /\ pc = "done" =>
       /\ echoed = echo_input
       /\ Len(echo_input) >= 2
       /\ echo_input[Len(echo_input)] = 4
       /\ Cardinality({k \in 1..Len(echo_input) : echo_input[k] = 4}) = 2
  /\ wait \notin {"stdout", "stderr"} => echoed = <<>>

C19_State ==
  pc \in {"outer", "inner", "control", "send", "end_marker"} =>
    window_size \in 0..65535

C19_Step ==
  /\ (pc = "read_window" /\ pc' = "outer") =>
       /\ window_size' = rx[1] + 256 * rx[2]
       /\ window_remain' = 0
  /\ pc # "read_window" => window_size' = window_size
  /\ window_remain' > window_remain =>
       /\ pc = "control"
       /\ window_remain' = window_remain + window_size
  /\ (pc = "control" /\ rx # <<>> /\ Head(rx) = 1 /\ pc' = "inner") =>
       window_remain' = window_remain + window_size

\* C19: the window unit size is the little-endian 16-bit value
\* b0 + 256*b1 of the two window bytes [b0, b1], so it lies in 0..65535,
\* and it is the exact amount added to the remaining credit at each grant.
C19_WindowDecoding == []C19_State /\ [][C19_Step]_vars

C19_Witness ==
  /\ pc = "send"
  /\ window_size = 65535
  /\ grants_read = 2
  /\ window_remain = 131070

C20_State ==
  /\ \A k \in WritesAt("payload") : writes[k].data # <<>>
  /\ Len(PayloadWrites) <= Len(script)
  /\ pc \in {"inner", "control", "send"} => i < Len(script)
  /\ script = <<>> =>
       /\ pc \notin {"inner", "control", "send"}
       /\ grants_read = 0
       /\ byte_buf = 0
       /\ \A k \in 1..Len(writes) : k > 4 => writes[k].site = "end_marker"

C20_Step ==
  /\ PayloadStep =>
       /\ Len(writes'[Len(writes')].data) >= 1
       /\ i' >= i + 1
       /\ i' <= Len(script)
  /\ (pc = "inner" /\ pc' = "send") => window_remain >= 1
  /\ byte_buf' # byte_buf => script # <<>>

\* C20: every payload write is non-empty: the credit loop is left only
\* with remaining credit of at least 1 while the offset is below the
\* payload length, so each send iteration moves the offset on by at least
\* 1 and the loop runs at most L times; for an empty payload no control
\* byte is read and only the end-marker is written.
C20_NonEmptyChunks == []C20_State /\ [][C20_Step]_vars

C20_Witness ==
  /\ pc = "end_marker"
  /\ Len(script) = MaxLen
  /\ Len(PayloadWrites) = Len(script)

====
